---- MODULE Spec2Model ----
(***************************************************************************)
(* Model of the polling / change-detection engine of the MLB at-bat        *)
(* ticker: bot.py (check_games, on_ready, load_json, save_json, the two    *)
(* post_* notifier calls) and mlb_api.py (the gateway: _request,           *)
(* get_player_game_today, get_latest_atbat, _format_game_info,             *)
(* _format_atbat).                                                         *)
(*                                                                         *)
(* check_games is a coroutine: it is modelled with a program counter, one  *)
(* step per await (the two gateway lookups, the two notifier posts) and    *)
(* one step for the synchronous marker update + save_json, so that the     *)
(* upstream feed can change and the process can crash between the steps.   *)
(*                                                                         *)
(* The gateway functions that the pass does not depend on (search_player,  *)
(* the season stats and their rendering in the slash line) are applied to  *)
(* drawn upstream answers in a specification of their own, GatewaySpec.    *)
(***************************************************************************)
EXTENDS Integers, Sequences, FiniteSets, TLC

\* ------------------------------------------------------------------ bounds
NumEntities == 2    \* tracked player ids are 1..NumEntities
MaxGames == 2       \* game days the upstream schedule goes through
MaxPlays == 2       \* plays of one game's feed
MaxPeople == 2      \* players in the answer of /sports/1/players
MaxNameLen == 2     \* characters of a player name and of a search name
MaxStatLen == 3     \* characters of an upstream avg / obp / slg string

Entities == 1..NumEntities
Games == 1..MaxGames

\* ------------------------------------------------- upstream (MLB Stats API)
hit_events == {"Single", "Double", "Triple", "Home Run"}
\* event types the modelled feed carries: one hit, one non-hit
EventTypes == {"Single", "Strikeout"}

\* dict.get(key) of a missing key: None
NoMarker == -1

\* the marker store of a missing file / an empty dict: no key present
EmptyMarkers == [e \in Entities |-> NoMarker]

\* a play of liveData.plays.allPlays; event "" and description FALSE stand
\* for a missing / empty result field (the at-bat is still in progress)
Play(i, b, ev, d) == [atBatIndex |-> i, batter |-> b, event |-> ev, description |-> d]

VARIABLES
    \* upstream state
    gamePk,          \* today's first scheduled game of the team; 0: no game today
    detailedState,   \* status.detailedState of that game
    allPlays,        \* its play-by-play feed
    \* files
    players_file,    \* PLAYER_ROSTER_FILE: sequence of player ids
    last_atbats_file,\* LAST_ATBATS_FILE: [ok, data]; ok = FALSE: not valid JSON
    \* the tasks.loop around check_games
    loopTasks,       \* started loop tasks that are not done (is_running() = loopTasks > 0)
    running,         \* passes over the roster in progress
    \* locals of the running check_games pass
    pc,              \* "idle", "game", "atbat", "post", "save", "summary"
    roster,          \* roster loaded at the start of the pass
    idx,             \* position of the for loop in roster (1-based)
    last_atbats,     \* the in-memory marker dict of the pass
    game_data,       \* <<>> or <<game snapshot>>
    latest_atbat,    \* <<>> or <<at-bat>>
    \* observation of the notifier and of the last step (history)
    atbat_sent,      \* <<entity, game, event id>> delivered by post_atbat_update
    summary_sent,    \* <<entity, game>> delivered by post_game_summary
    res,             \* outcome of the last step of the pass
    \* a gateway function or command applied on its own (GatewaySpec)
    call             \* [fn, the arguments and upstream answer, done, out]

upstream == <<gamePk, detailedState, allPlays>>
files == <<players_file, last_atbats_file>>
locals == <<pc, roster, idx, last_atbats, game_data, latest_atbat>>
sink == <<atbat_sent, summary_sent>>
vars == <<gamePk, detailedState, allPlays, players_file, last_atbats_file,
          loopTasks, running, pc, roster, idx, last_atbats, game_data,
          latest_atbat, atbat_sent, summary_sent, res, call>>

\* ----------------------------------------------------------------- gateway
\* (bug variant: the failure of the request is not noticed)
_request_Unchecked(ok, body) == <<body>>

\* MLBStatsAPI._request: the JSON body, or {} on any transport / decode error.
\* A response is <<body>>; {} is <<>>.
_request(ok, body) == IF ok THEN <<body>> ELSE <<>>

_format_game_info(game) ==
    [game_pk |-> game.gamePk, gameComplete |-> (game.detailedState = "Final")]

\* MLBStatsAPI.get_player_game_today: None is <<>>
get_player_game_today(personResp, scheduleResp) ==
    IF personResp = <<>> THEN <<>>
    ELSE IF scheduleResp = <<>> THEN <<>>
    ELSE IF scheduleResp[1].games = <<>> THEN <<>>
    ELSE <<_format_game_info(scheduleResp[1].games[1])>>

_format_atbat(play) ==
    [id |-> play.atBatIndex, was_hit |-> (play.event \in hit_events)]

\* (bug variant: a play with one of the two result fields counts as completed)
player_atbats_EitherField(player_id, plays) ==
    SelectSeq(plays, LAMBDA p : p.batter = player_id /\ (p.event # "" \/ p.description))

\* the completed at-bats of player_id, in feed order
player_atbats(player_id, plays) ==
    SelectSeq(plays, LAMBDA p : p.batter = player_id /\ p.event # "" /\ p.description)

\* (bug variant: the oldest completed at-bat of the feed is taken)
get_latest_atbat_Oldest(player_id, gd, feedResp) ==
    IF gd.game_pk = 0 THEN <<>>
    ELSE IF feedResp = <<>> THEN <<>>
    ELSE LET ab == player_atbats(player_id, feedResp[1].allPlays)
         IN IF ab = <<>> THEN <<>> ELSE <<_format_atbat(ab[1])>>

\* MLBStatsAPI.get_latest_atbat: None is <<>>
get_latest_atbat(player_id, gd, feedResp) ==
    IF gd.game_pk = 0 THEN <<>>
    ELSE IF feedResp = <<>> THEN <<>>
    ELSE LET ab == player_atbats(player_id, feedResp[1].allPlays)
         IN IF ab = <<>> THEN <<>> ELSE <<_format_atbat(ab[Len(ab)])>>

\* what the schedule and feed endpoints answer now
scheduleBody ==
    [games |-> IF gamePk = 0 THEN <<>>
               ELSE <<[gamePk |-> gamePk, detailedState |-> detailedState]>>]
feedBody == [allPlays |-> allPlays]

\* -------------------------------------------------------- strings, search
\* a str is the sequence of its characters
Strings(chars, n) == UNION {[1..k -> chars] : k \in 0..n}

\* the characters of the modelled names: one letter in both cases, one more
NameChars == {"a", "A", "b"}

\* str.lower()
lower(str) == [i \in DOMAIN str |-> IF str[i] = "A" THEN "a" ELSE str[i]]

\* needle in hay (of str)
contains(needle, hay) ==
    \E i \in 0..(Len(hay) - Len(needle)) : SubSeq(hay, i + 1, i + Len(needle)) = needle

\* MLBStatsAPI._format_player_info
_format_player_info(player_data) ==
    [id |-> player_data.id, name |-> player_data.fullName]

\* the value a gateway call gives its caller: what it returned, or the
\* exception it raised
Returned(v) == [exc |-> "", value |-> v]
Raises(e) == [exc |-> e, value |-> <<>>]

\* the first entry of players that matches, None (<<>>) when there is none
RECURSIVE first_match(_, _)
first_match(name_lower, players) ==
    IF players = <<>> THEN <<>>
    ELSE IF contains(name_lower, lower(Head(players).fullName))
    THEN <<_format_player_info(Head(players))>>
    ELSE first_match(name_lower, Tail(players))

\* MLBStatsAPI.search_player(self, name): Optional[Dict], None is <<>>
search_player(name, resp) ==
    LET players == IF resp = <<>> THEN <<>> ELSE resp[1].people
    IN first_match(lower(name), players)

\* the parameters search_player can be called with
search_player_params == {"name"}

\* await mlb_api.search_player(...) with the given keyword arguments: an
\* argument the signature does not have raises TypeError at the call
search_player_call(kwargs, name, resp) ==
    IF kwargs \subseteq search_player_params
    THEN Returned(search_player(name, resp))
    ELSE Raises("TypeError")

\* ------------------------------------------------------------ season stats
\* the characters of the modelled stat strings
StatChars == {"0", ".", "5"}

\* str.lstrip("0")
RECURSIVE lstrip0(_)
lstrip0(str) ==
    IF str # <<>> /\ Head(str) = "0" THEN lstrip0(Tail(str)) ELSE str

\* str(stats.get(key, ".000")).lstrip("0") or "0"
format_average(str) == IF lstrip0(str) = <<>> THEN <<"0">> ELSE lstrip0(str)

\* the stats _get_player_season_stats falls back to
fallback_stats ==
    [avg |-> <<".", "0", "0", "0">>, obp |-> <<".", "0", "0", "0">>,
     slg |-> <<".", "0", "0", "0">>]

\* MLBStatsAPI._get_player_season_stats; resp[1].splits is
\* data["stats"][0]["splits"]
_get_player_season_stats(resp) ==
    IF resp = <<>> THEN fallback_stats
    ELSE IF resp[1].splits = <<>> THEN fallback_stats
    ELSE LET stats == resp[1].splits[1]
         IN [avg |-> format_average(stats.avg),
             obp |-> format_average(stats.obp),
             slg |-> format_average(stats.slg)]

\* " / "
Separator == <<" ", "/", " ">>

\* post_atbat_update: f".{avg} / .{obp} / .{slg}"
slash_line(stats) ==
    <<".">> \o stats.avg \o Separator \o <<".">> \o stats.obp
            \o Separator \o <<".">> \o stats.slg

\* ------------------------------------------------------------------- files
\* load_json(LAST_ATBATS_FILE, default={}) of a readable file
load_json(file) == file.data

\* save_json: the file after a complete open('w') + json.dump
save_json(data) == [ok |-> TRUE, data |-> data]

\* the file after open('w') truncated it and json.dump did not finish
Truncated == [ok |-> FALSE, data |-> EmptyMarkers]

\* no function is applied on its own
NoCall == [fn |-> "none"]

\* ------------------------------------------------------------------- Init
\* the rosters the file starts with: no id twice. The ids are interchangeable
\* (nothing in the code depends on their value), so the roster of n players
\* is taken to hold the ids 1..n in this order.
Rosters == {[i \in 1..n |-> i] : n \in 0..NumEntities}

Init ==
    /\ gamePk = 0
    /\ detailedState = "Scheduled"
    /\ allPlays = <<>>
    /\ players_file \in Rosters
    /\ last_atbats_file = save_json(EmptyMarkers)
    /\ loopTasks = 0
    /\ running = 0
    /\ pc = "idle"
    /\ roster = <<>>
    /\ idx = 0
    /\ last_atbats = EmptyMarkers
    /\ game_data = <<>>
    /\ latest_atbat = <<>>
    /\ atbat_sent = {}
    /\ summary_sent = {}
    /\ res = "init"
    /\ call = NoCall

\* ------------------------------------------------------- upstream actions
\* the play has its result: both fields are recorded
Completed(p) == p.event # "" /\ p.description

\* a batter comes to the plate / a play is recorded in the feed
NewPlay ==
    /\ gamePk # 0
    /\ detailedState # "Final"
    /\ Len(allPlays) < MaxPlays
    /\ allPlays # <<>> => Completed(allPlays[Len(allPlays)])
    /\ \E b \in Entities, ev \in EventTypes \cup {""}, d \in BOOLEAN :
         allPlays' = Append(allPlays, Play(Len(allPlays), b, ev, d))
    /\ detailedState' = "In Progress"
    /\ UNCHANGED <<gamePk, files, loopTasks, running, locals, sink, res>>
    /\ UNCHANGED call

\* the in-progress last play gets its result
CompletePlay ==
    /\ allPlays # <<>>
    /\ detailedState # "Final"
    /\ LET n == Len(allPlays) IN
         /\ ~Completed(allPlays[n])
         /\ \E ev \in EventTypes :
              /\ allPlays[n].event \in {"", ev}
              /\ allPlays' = [allPlays EXCEPT ![n] = Play(n - 1, allPlays[n].batter, ev, TRUE)]
    /\ UNCHANGED <<gamePk, detailedState, files, loopTasks, running, locals, sink, res>>
    /\ UNCHANGED call

\* the game that was played ends
GameFinal ==
    /\ gamePk # 0
    /\ detailedState = "In Progress"
    /\ detailedState' = "Final"
    /\ UNCHANGED <<gamePk, allPlays, files, loopTasks, running, locals, sink, res>>
    /\ UNCHANGED call

\* the calendar date changes: the schedule shows the next game. The feed
\* endpoint is per game_pk; a pass that holds a game snapshot reads the feed of
\* that game, so the date is taken to change before or after the two lookups
\* of one roster entry, not between them.
NextDay ==
    /\ gamePk < MaxGames
    /\ pc # "atbat"
    /\ gamePk' = gamePk + 1
    /\ detailedState' = "Scheduled"
    /\ allPlays' = <<>>
    /\ UNCHANGED <<files, loopTasks, running, locals, sink, res>>
    /\ UNCHANGED call

\* ------------------------------------------------------------ the bot
is_running == loopTasks > 0

\* (bug variant: start() without the is_running() test)
on_ready_start_Unguarded == TRUE

\* on_ready: start the tracking loop unless it is running
on_ready_start == ~is_running

on_ready ==
    /\ on_ready_start
    /\ loopTasks' = loopTasks + 1
    /\ UNCHANGED <<upstream, files, running, locals, sink, res>>
    /\ UNCHANGED call

on_ready_again ==
    /\ ~on_ready_start
    /\ res' = "already_running"
    /\ UNCHANGED <<upstream, files, loopTasks, running, locals, sink>>
    /\ UNCHANGED call

\* the locals of a pass that is over
Cleared ==
    /\ pc' = "idle"
    /\ roster' = <<>>
    /\ idx' = 0
    /\ last_atbats' = EmptyMarkers
    /\ game_data' = <<>>
    /\ latest_atbat' = <<>>

\* tasks.loop: a loop task that is between two iterations runs check_games
TickReady == loopTasks > running

\* (bug variant: the empty roster is not tested, check_games goes on)
no_roster_Never(r) == FALSE

\* if not roster (an absent players.json is loaded as the default [])
no_roster(r) == r = <<>>

\* check_games up to its first await
Tick ==
    /\ TickReady
    /\ IF no_roster(players_file)
       THEN /\ res' = "noroster"
            /\ UNCHANGED <<loopTasks, running, locals>>
       ELSE IF ~last_atbats_file.ok
       THEN \* json.load raises: the exception leaves check_games, the loop task ends
            /\ loopTasks' = loopTasks - 1
            /\ res' = "loopdead"
            /\ UNCHANGED <<running, locals>>
       ELSE \E channel \in BOOLEAN :
            IF ~channel
            THEN /\ res' = "nochannel"
                 /\ UNCHANGED <<loopTasks, running, locals>>
            ELSE /\ running' = running + 1
                 /\ pc' = "game"
                 /\ roster' = players_file
                 /\ idx' = 1
                 /\ last_atbats' = load_json(last_atbats_file)
                 /\ game_data' = <<>>
                 /\ latest_atbat' = <<>>
                 /\ res' = "start"
                 /\ UNCHANGED loopTasks
    /\ UNCHANGED <<upstream, files, sink>>
    /\ UNCHANGED call

player == roster[idx]

\* continue / end of the loop body: the next roster entry, or the pass is over
\* (markers: the in-memory dict the pass goes on with)
NextEntry(markers) ==
    IF idx < Len(roster)
    THEN /\ idx' = idx + 1
         /\ pc' = "game"
         /\ last_atbats' = markers
         /\ game_data' = <<>>
         /\ latest_atbat' = <<>>
         /\ UNCHANGED <<roster, running>>
    ELSE /\ running' = running - 1
         /\ Cleared

\* (bug variant: the try is around the for loop, an exception ends the pass)
Except_EndsPass(markers) ==
    /\ running' = running - 1
    /\ Cleared

\* (bug variant: a failed roster entry is tried again until it succeeds)
Except_Retries(markers) ==
    /\ pc' = "game"
    /\ last_atbats' = markers
    /\ game_data' = <<>>
    /\ latest_atbat' = <<>>
    /\ UNCHANGED <<roster, idx, running>>

\* except Exception as e: print(...) ; the for loop goes on
Except(markers) == NextEntry(markers)

\* await mlb_api.get_player_game_today(player['id'])
GetGame ==
    /\ pc = "game"
    /\ \E personOk \in BOOLEAN, scheduleOk \in BOOLEAN, malformed \in BOOLEAN :
         IF malformed
         THEN /\ res' = "gameraise"
              /\ Except(last_atbats)
         ELSE LET gd == get_player_game_today(_request(personOk, [people |-> player]),
                                              _request(scheduleOk, scheduleBody))
              IN IF gd = <<>>
                 THEN /\ res' = "nogame"
                      /\ NextEntry(last_atbats)
                 ELSE /\ game_data' = gd
                      /\ pc' = "atbat"
                      /\ res' = "game"
                      /\ UNCHANGED <<roster, idx, last_atbats, latest_atbat, running>>
    /\ UNCHANGED <<upstream, files, loopTasks, sink>>
    /\ UNCHANGED call

\* (bug variant: an absent marker is taken for "nothing to compare")
IsNew_SkipsAbsent(atbat, markers, p) ==
    markers[p] # NoMarker /\ atbat.id # markers[p]

\* (bug variant: every latest at-bat is taken for new)
IsNew_Always(atbat, markers, p) == TRUE

\* (bug variant: only hits are taken for news)
IsNew_HitsOnly(atbat, markers, p) ==
    atbat.was_hit /\ atbat.id # markers[p]

\* the new-at-bat test of check_games
IsNew(atbat, markers, p) == atbat.id # markers[p]

\* await mlb_api.get_latest_atbat(...) and the comparison with the marker
GetAtbat ==
    /\ pc = "atbat"
    /\ \E feedOk \in BOOLEAN, malformed \in BOOLEAN :
         IF malformed
         THEN /\ res' = "atbatraise"
              /\ Except(last_atbats)
         ELSE LET ab == get_latest_atbat(player, game_data[1], _request(feedOk, feedBody))
              IN /\ res' = IF ~feedOk THEN "feedfail"
                           ELSE IF ab = <<>> THEN "noatbat"
                           ELSE IF IsNew(ab[1], last_atbats, player) THEN "new"
                           ELSE "same"
                 /\ IF ab = <<>>
                    THEN NextEntry(last_atbats)
                    ELSE IF IsNew(ab[1], last_atbats, player)
                    THEN /\ latest_atbat' = ab
                         /\ pc' = "post"
                         /\ UNCHANGED <<roster, idx, last_atbats, game_data, running>>
                    ELSE NextEntry(last_atbats)
    /\ UNCHANGED <<upstream, files, loopTasks, sink>>
    /\ UNCHANGED call

\* (bug variant: a failed channel.send is swallowed, the caller goes on to the
\* marker update)
post_atbat_update_Swallows ==
    /\ pc = "post"
    /\ \E delivered \in BOOLEAN :
         /\ atbat_sent' = IF delivered
                THEN atbat_sent \cup {<<player, game_data[1].game_pk, latest_atbat[1].id>>}
                ELSE atbat_sent
         /\ res' = IF delivered THEN "posted" ELSE "postfail"
    /\ pc' = "save"
    /\ UNCHANGED <<roster, idx, last_atbats, game_data, latest_atbat, running>>
    /\ UNCHANGED <<upstream, files, loopTasks, summary_sent>>
    /\ UNCHANGED call

\* (bug variant: no try around the loop body, a raising channel.send leaves
\* check_games and ends the loop task)
post_atbat_update_Fatal ==
    /\ pc = "post"
    /\ \E delivered \in BOOLEAN :
         IF delivered
         THEN /\ atbat_sent' = atbat_sent \cup
                    {<<player, game_data[1].game_pk, latest_atbat[1].id>>}
              /\ pc' = "save"
              /\ res' = "posted"
              /\ UNCHANGED <<roster, idx, last_atbats, game_data, latest_atbat,
                             running, loopTasks>>
         ELSE /\ res' = "postfail"
              /\ loopTasks' = loopTasks - 1
              /\ running' = running - 1
              /\ Cleared
              /\ UNCHANGED atbat_sent
    /\ UNCHANGED <<upstream, files, summary_sent>>
    /\ UNCHANGED call

\* await post_atbat_update(...): channel.send delivers or raises
post_atbat_update ==
    /\ pc = "post"
    /\ \E delivered \in BOOLEAN :
         IF delivered
         THEN /\ atbat_sent' = atbat_sent \cup
                    {<<player, game_data[1].game_pk, latest_atbat[1].id>>}
              /\ pc' = "save"
              /\ res' = "posted"
              /\ UNCHANGED <<roster, idx, last_atbats, game_data, latest_atbat, running>>
         ELSE /\ res' = "postfail"
              /\ Except(last_atbats)
              /\ UNCHANGED atbat_sent
    /\ UNCHANGED <<upstream, files, loopTasks, summary_sent>>
    /\ UNCHANGED call

\* (bug variant: the summary is requested for every game, complete or not)
wants_summary_Always(gd) == TRUE

\* if game_data.get('gameComplete')
wants_summary(gd) == gd.gameComplete

\* last_atbats[player_key] = latest_atbat['id']; save_json(LAST_ATBATS_FILE, last_atbats)
UpdateMarker ==
    /\ pc = "save"
    /\ LET updated == [last_atbats EXCEPT ![player] = latest_atbat[1].id]
       IN \E outcome \in {"ok", "open_raises", "dump_raises"} :
            CASE outcome = "ok" ->
                   /\ last_atbats_file' = save_json(updated)
                   /\ res' = "saved"
                   /\ IF wants_summary(game_data[1])
                      THEN /\ pc' = "summary"
                           /\ last_atbats' = updated
                           /\ UNCHANGED <<roster, idx, game_data, latest_atbat, running>>
                      ELSE NextEntry(updated)
              [] outcome = "open_raises" ->
                   /\ UNCHANGED last_atbats_file
                   /\ res' = "savefail"
                   /\ Except(updated)
              [] outcome = "dump_raises" ->
                   /\ last_atbats_file' = Truncated
                   /\ res' = "savefail"
                   /\ Except(updated)
    /\ UNCHANGED <<upstream, players_file, loopTasks, sink>>
    /\ UNCHANGED call

\* await post_game_summary(...): channel.send delivers or raises
post_game_summary ==
    /\ pc = "summary"
    /\ \E delivered \in BOOLEAN :
         IF delivered
         THEN /\ summary_sent' = summary_sent \cup {<<player, game_data[1].game_pk>>}
              /\ res' = "summary"
              /\ NextEntry(last_atbats)
         ELSE /\ res' = "summaryfail"
              /\ Except(last_atbats)
              /\ UNCHANGED summary_sent
    /\ UNCHANGED <<upstream, files, loopTasks, atbat_sent>>
    /\ UNCHANGED call

\* p['name'] of the roster entry with this id: entry 1 and the other
\* entries have different names with a common part
name_of(id) == IF id = 1 THEN <<"a", "b">> ELSE <<"b", "b">>

\* (bug variant: the markers of the removed players are deleted with them)
remove_player_markers_Deleted(markers, kept) ==
    [e \in Entities |->
       IF \E n \in DOMAIN kept : kept[n] = e THEN markers[e] ELSE NoMarker]

\* what /remove_player does to the marker file: nothing
remove_player_markers(markers, kept) == markers

\* roster = [p for p in roster if player_name.lower() not in p['name'].lower()]
filtered(some_roster, player_name) ==
    SelectSeq(some_roster, LAMBDA p : ~contains(lower(player_name), lower(name_of(p))))

\* /remove_player player_name by a user with the admin role: every roster
\* entry whose name contains the name is dropped and the roster saved. The
\* command without the role, or with a name that nothing matches, changes
\* nothing. The handler has no await before save_json and touches nothing a
\* running pass works with (the pass keeps the roster it loaded), so it
\* commutes with the steps of a pass and is taken between two passes.
remove_player ==
    /\ pc = "idle"
    /\ \E kept \in {filtered(players_file, player_name) :
                      player_name \in Strings(NameChars, MaxNameLen) \ {<<>>}} :
         /\ Len(kept) # Len(players_file)
         /\ players_file' = kept
         /\ last_atbats_file' =
              [last_atbats_file EXCEPT
                 !.data = remove_player_markers(last_atbats_file.data, kept)]
    /\ UNCHANGED <<upstream, loopTasks, running, locals, sink, res>>
    /\ UNCHANGED call

\* the process dies and is started again later (on_ready); a crash inside
\* save_json may leave the file truncated
Crash ==
    /\ loopTasks > 0
    /\ loopTasks' = 0
    /\ running' = 0
    /\ Cleared
    /\ res' = "crash"
    /\ IF pc = "save"
       THEN \E torn \in BOOLEAN :
              last_atbats_file' = IF torn THEN Truncated ELSE last_atbats_file
       ELSE UNCHANGED last_atbats_file
    /\ UNCHANGED <<upstream, players_file, sink>>
    /\ UNCHANGED call

Next ==
    \/ NewPlay
    \/ CompletePlay
    \/ GameFinal
    \/ NextDay
    \/ on_ready
    \/ on_ready_again
    \/ Tick
    \/ GetGame
    \/ GetAtbat
    \/ post_atbat_update
    \/ UpdateMarker
    \/ post_game_summary
    \/ Crash

Spec == Init /\ [][Next]_vars

\* The behaviours with the roster command: Spec is the bot with the roster
\* file it was started with, RosterSpec lets an admin remove players.
RosterNext ==
    \/ Next
    \/ remove_player

RosterSpec == Init /\ [][RosterNext]_vars

\* the steps of a process that does not crash
NextAlive ==
    \/ NewPlay
    \/ CompletePlay
    \/ GameFinal
    \/ NextDay
    \/ on_ready
    \/ on_ready_again
    \/ Tick
    \/ GetGame
    \/ GetAtbat
    \/ post_atbat_update
    \/ UpdateMarker
    \/ post_game_summary

\* The behaviours without a crash under the scheduling of asyncio: every
\* coroutine that can go on does, and the loop timer fires, so the steps of
\* the bot are weakly fair; the upstream and the notifier's answers are not.
FairSpec ==
    /\ Init /\ [][NextAlive]_vars
    /\ WF_vars(on_ready)
    /\ WF_vars(Tick)
    /\ WF_vars(GetGame)
    /\ WF_vars(GetAtbat)
    /\ WF_vars(post_atbat_update)
    /\ WF_vars(UpdateMarker)
    /\ WF_vars(post_game_summary)

\* channel.send of the at-bat notification goes through
Delivers == post_atbat_update /\ res' = "posted"

\* The fair behaviours in which the notifier does not fail for ever: a post
\* that is attempted again and again is delivered at some attempt.
RetrySpec == FairSpec /\ SF_vars(Delivers)

\* ------------------------------------------- gateway functions on their own
bot == <<upstream, files, loopTasks, running, locals, sink, res>>

\* answers of /sports/1/players: {} or a body with the people of the season
PeopleLists ==
    UNION {[1..n -> [id : {0}, fullName : Strings(NameChars, MaxNameLen) \ {<<>>}]]
             : n \in 0..MaxPeople}
WithIds(people) == [i \in DOMAIN people |-> [people[i] EXCEPT !.id = i]]
PlayersResponses ==
    {_request(ok, [people |-> WithIds(p)]) : ok \in BOOLEAN, p \in PeopleLists}

\* answers of /people/{id}/stats: {} or a body with no or one season split
StatStrings == Strings(StatChars, MaxStatLen) \ {<<>>}
StatsResponses ==
    {_request(FALSE, <<>>), _request(TRUE, [splits |-> <<>>])}
      \cup {_request(TRUE, [splits |-> <<[avg |-> a, obp |-> o, slg |-> g]>>])
              : a \in StatStrings, o \in StatStrings, g \in StatStrings}

Pending == Returned(<<>>)

GatewayCalls ==
    [fn : {"search_player"}, name : Strings(NameChars, MaxNameLen),
     resp : PlayersResponses, done : {FALSE}, out : {Pending}]
    \cup
    [fn : {"add_player"}, admin : BOOLEAN, name : Strings(NameChars, MaxNameLen),
     resp : PlayersResponses, done : {FALSE}, out : {Pending}]
    \cup
    [fn : {"slash_line"}, resp : StatsResponses, done : {FALSE}, out : {Pending}]

GatewayInit ==
    /\ gamePk = 0
    /\ detailedState = "Scheduled"
    /\ allPlays = <<>>
    /\ players_file = <<>>
    /\ last_atbats_file = save_json(EmptyMarkers)
    /\ loopTasks = 0
    /\ running = 0
    /\ pc = "idle"
    /\ roster = <<>>
    /\ idx = 0
    /\ last_atbats = EmptyMarkers
    /\ game_data = <<>>
    /\ latest_atbat = <<>>
    /\ atbat_sent = {}
    /\ summary_sent = {}
    /\ res = "init"
    /\ call \in GatewayCalls

\* await mlb_api.search_player(name)
SearchPlayer ==
    /\ call.fn = "search_player"
    /\ ~call.done
    /\ call' = [call EXCEPT !.done = TRUE,
                            !.out = search_player_call({"name"}, call.name, call.resp)]
    /\ UNCHANGED bot

\* /add_player up to the value of players: the role check, then
\* players = await mlb_api.search_player(player_name, return_multiple=True)
add_player ==
    /\ call.fn = "add_player"
    /\ ~call.done
    /\ call' = [call EXCEPT
                  !.done = TRUE,
                  !.out = IF ~call.admin THEN Raises("role")
                          ELSE search_player_call({"name", "return_multiple"},
                                                  call.name, call.resp)]
    /\ UNCHANGED bot

\* the stats of get_latest_atbat's at-bat as post_atbat_update renders them
SlashLine ==
    /\ call.fn = "slash_line"
    /\ ~call.done
    /\ call' = [call EXCEPT
                  !.done = TRUE,
                  !.out = Returned(slash_line(_get_player_season_stats(call.resp)))]
    /\ UNCHANGED bot

GatewayNext ==
    \/ SearchPlayer
    \/ add_player
    \/ SlashLine

GatewaySpec == GatewayInit /\ [][GatewayNext]_vars

\* ------------------------------------------------------------- properties
\* a step of the pass (every step of check_games moves pc or idx)
Stepped == pc' # pc \/ idx' # idx

\* the notification key of the at-bat the pass holds
Key == <<player, game_data[1].game_pk, latest_atbat[1].id>>

\* the marker of e in LAST_ATBATS_FILE as load_json would return it
Persisted(file, e) == IF file.ok THEN file.data[e] ELSE NoMarker

\* C1 as stated: for an entity without a marker, the pass that gets a
\* qualifying at-bat from the gateway posts the notification and leaves the
\* at-bat's id as the persisted marker (whatever the notifier and the file do).
C1_FirstAtBatAlwaysPostedAndMarked ==
    [][ /\ (pc = "post" /\ Stepped /\ res' # "crash" /\ last_atbats[player] = NoMarker)
             => Key \in atbat_sent'
        /\ (pc = "save" /\ Stepped /\ res' # "crash" /\ last_atbats[player] = NoMarker)
             => Persisted(last_atbats_file', player) = latest_atbat[1].id ]_vars

\* C1 amended: for an entity without a marker, the pass that gets a qualifying
\* at-bat from the gateway takes it for new and calls post_atbat_update once
\* with that at-bat; a delivered post adds exactly this notification; a failed
\* post adds none and leaves the marker file alone; a completed save leaves
\* the at-bat's id as the persisted marker of the entity.
C1_FirstAtBat ==
    [][ /\ (pc = "atbat" /\ Stepped /\ res' \in {"new", "same"}
              /\ last_atbats[player] = NoMarker)
             => /\ res' = "new" /\ pc' = "post" /\ idx' = idx
                /\ latest_atbat' = get_latest_atbat(player, game_data[1], <<feedBody>>)
                /\ UNCHANGED <<sink, last_atbats_file>>
        /\ (pc = "post" /\ res' = "posted" /\ last_atbats[player] = NoMarker)
             => /\ atbat_sent' = atbat_sent \cup {Key}
                /\ pc' = "save" /\ idx' = idx
        /\ (pc = "post" /\ res' = "postfail" /\ last_atbats[player] = NoMarker)
             => /\ atbat_sent' = atbat_sent
                /\ last_atbats_file' = last_atbats_file
        /\ (pc = "save" /\ res' = "saved" /\ last_atbats[player] = NoMarker)
             => /\ Key \in atbat_sent
                /\ last_atbats_file'.ok
                /\ last_atbats_file'.data[player] = latest_atbat[1].id ]_vars

\* the first at-bat of player 1 was posted once and its id 0 is the marker
C1_Witness ==
    /\ res = "saved"
    /\ atbat_sent = {<<1, 1, 0>>}
    /\ last_atbats_file = save_json([EmptyMarkers EXCEPT ![1] = 0])

\* C2: no post is attempted and no marker is written for an at-bat whose id
\* equals the persisted marker of the entity: while the latest event id is
\* the marker, passes emit no at-bat notification for the entity and leave
\* its marker as it is.
C2_Idempotent ==
    (pc \in {"post", "save"} /\ last_atbats_file.ok)
        => latest_atbat[1].id # last_atbats_file.data[player]

\* a pass found the latest at-bat of player 1 equal to its marker: it was
\* posted once, before
C2_Witness ==
    /\ res = "same"
    /\ players_file = <<1>>
    /\ atbat_sent = {<<1, 1, 0>>}
    /\ last_atbats_file = save_json([EmptyMarkers EXCEPT ![1] = 0])
    /\ gamePk = 1


\* a pass holds a snapshot of game g with gameComplete for entity e
ObservedComplete(e, g) ==
    /\ pc = "atbat"
    /\ player = e
    /\ game_data = <<[game_pk |-> g, gameComplete |-> TRUE]>>

\* the game summary of (e, g) was delivered or is being posted
SummaryTriggered(e, g) ==
    \/ <<e, g>> \in summary_sent
    \/ pc = "summary" /\ player = e /\ game_data[1].game_pk = g

\* the latest at-bat the feed holds for the entity of the pass is the one
\* already notified and marked
LatestNotNew ==
    LET ab == get_latest_atbat(player, game_data[1], <<feedBody>>)
    IN /\ ab # <<>>
       /\ last_atbats[player] = ab[1].id
       /\ <<player, game_data[1].game_pk, ab[1].id>> \in atbat_sent

\* a step of the pass met a failure of the upstream, the notifier or the file
Failed ==
    res \in {"nochannel", "loopdead", "nogame", "gameraise", "atbatraise",
             "feedfail", "postfail", "savefail", "summaryfail"}

\* C3: once a pass observes game g complete for entity e, the game summary of
\* (e, g) is eventually triggered, also when completion is first observed in
\* a pass where the latest at-bat is not new (the case taken here; a run in
\* which a request, a post or a save fails later is not held against it).
C3_SummaryAfterCompletion ==
    \A e \in Entities, g \in Games :
        []((ObservedComplete(e, g) /\ LatestNotNew)
              => <>(SummaryTriggered(e, g) \/ Failed))

\* C4: the latest at-bat is taken for already notified only when this at-bat
\* of this game was notified: a marker left by another game, with the same
\* number, does not hide it.
C4_GameScoped ==
    [][ (pc = "atbat" /\ Stepped /\ res' = "same")
          => <<player, game_data[1].game_pk, last_atbats[player]>> \in atbat_sent ]_vars

\* every marker of the dict is the id of a delivered at-bat notification
Delivered(markers) ==
    \A e \in Entities :
        markers[e] # NoMarker => \E g \in Games : <<e, g, markers[e]>> \in atbat_sent

\* C5: the marker of an entity, in the file and in the dict of the pass, is
\* absent or the id of an at-bat whose post_atbat_update was delivered, and a
\* failed post_atbat_update leaves the file and the dict as they were.
C5_MarkerOnlyAfterPost ==
    /\ [](last_atbats_file.ok => Delivered(last_atbats_file.data))
    /\ [](pc # "idle" => Delivered(last_atbats))
    /\ [][ (pc = "post" /\ res' = "postfail")
             => /\ last_atbats_file' = last_atbats_file
                /\ pc' # "idle" => last_atbats' = last_atbats ]_vars

\* the post of the first at-bat failed: nothing delivered, no marker
C5_Witness ==
    /\ res = "postfail"
    /\ atbat_sent = {}
    /\ last_atbats_file = save_json(EmptyMarkers)
    /\ Len(player_atbats(1, allPlays)) > 0

\* C6 as stated: a failed post_atbat_update still advances the marker of the
\* entity to the id of the at-bat.
C6_MarkerAdvancedRegardless ==
    [][ (pc = "post" /\ res' = "postfail")
          => Persisted(last_atbats_file', player) = latest_atbat[1].id ]_vars

\* C6 amended: a failed post_atbat_update does not advance the marker: the
\* pass leaves the entity without reaching the marker update, the persisted
\* marker of the entity stays different from the id of the at-bat, so a pass
\* that loads the file and gets the same latest at-bat takes it for new again.
C6_FailedPostKeepsAtBatNew ==
    /\ [](res = "postfail" => pc \in {"game", "idle"})
    /\ [][ (pc = "post" /\ res' = "postfail")
             => /\ Persisted(last_atbats_file', player) # latest_atbat[1].id
                /\ last_atbats_file'.ok
                     => IsNew(latest_atbat[1], load_json(last_atbats_file'), player) ]_vars

\* the post of the second at-bat of player 1 failed: the marker is still the
\* first at-bat
C6_Witness ==
    /\ res = "postfail"
    /\ players_file = <<1>>
    /\ atbat_sent = {<<1, 1, 0>>}
    /\ last_atbats_file = save_json([EmptyMarkers EXCEPT ![1] = 0])
    /\ Len(player_atbats(1, allPlays)) = 2

\* the outcomes of a step that raised inside the try of the loop body
Raised == {"gameraise", "atbatraise", "postfail", "savefail", "summaryfail"}

\* C7: an exception raised while roster entry idx is processed is caught at
\* that entry: the loop task lives on, the pass goes on with entry idx + 1,
\* and a pass ends only behind the last roster entry.
C7_FailureIsolation ==
    [][ /\ (pc # "idle" /\ Stepped /\ res' \in Raised)
             => /\ loopTasks' = loopTasks
                /\ IF idx < Len(roster)
                   THEN /\ pc' = "game" /\ idx' = idx + 1
                        /\ roster' = roster /\ running' = running
                   ELSE pc' = "idle"
        /\ (pc # "idle" /\ pc' = "idle" /\ res' # "crash")
             => idx = Len(roster) ]_vars

\* the post for the first roster entry failed and the pass is at the second
C7_Witness ==
    /\ res = "postfail"
    /\ pc = "game"
    /\ idx = 2
    /\ running = 1

\* C8: when the game-feed request fails, get_latest_atbat returns None: the
\* step posts nothing, leaves the marker (dict and file) alone, and the pass
\* goes on with the next roster entry.
C8_FeedFailure ==
    [][ (pc = "atbat" /\ Stepped /\ res' = "feedfail")
          => /\ UNCHANGED <<atbat_sent, summary_sent, last_atbats_file, loopTasks>>
             /\ pc' \notin {"post", "save", "summary"}
             /\ IF idx < Len(roster)
                THEN /\ pc' = "game" /\ idx' = idx + 1
                     /\ roster' = roster /\ last_atbats' = last_atbats
                ELSE pc' = "idle" ]_vars

\* the feed request for the first roster entry failed while the feed held a
\* completed, never notified at-bat of it; the pass is at the second entry
C8_Witness ==
    /\ res = "feedfail"
    /\ pc = "game"
    /\ idx = 2
    /\ Len(player_atbats(roster[1], allPlays)) > 0
    /\ last_atbats[roster[1]] = NoMarker
    /\ atbat_sent = {}

\* C9: at most one loop task is started and at most one pass over the roster
\* is running.
C9_NoOverlap == loopTasks <= 1 /\ running <= 1

\* on_ready came again while a pass was waiting for the notifier
C9_Witness ==
    /\ res = "already_running"
    /\ pc = "post"
    /\ running = 1
    /\ loopTasks = 1

\* C10: a crash leaves the persisted marker of every entity the pass is not
\* working on as it was.
C10_CrashKeepsEarlierMarkers ==
    [][ (loopTasks > 0 /\ res' = "crash" /\ loopTasks' = 0)
          => \A e \in Entities :
               (Persisted(last_atbats_file, e) # NoMarker /\ (pc # "idle" => player # e))
                 => Persisted(last_atbats_file', e) = Persisted(last_atbats_file, e) ]_vars

\* C11: a pass abandoned at any step, the marker write included, leaves the
\* marker file a well-formed mapping that a later pass can load, and the
\* markers of the entities the pass was not writing at their values.
C11_AbandonedPassKeepsMarkerFile ==
    [][ (loopTasks > 0 /\ res' = "crash" /\ last_atbats_file.ok)
          => /\ last_atbats_file'.ok
             /\ \A e \in Entities :
                  (pc # "idle" => player # e)
                    => load_json(last_atbats_file')[e] = load_json(last_atbats_file)[e] ]_vars

\* C12: working on roster entry e changes the persisted marker of e only:
\* the persisted marker of every other entity is the same before and after
\* each step of the pass on e.
C12_MarkersIsolated ==
    [][ (pc # "idle" /\ res' # "crash")
          => \A f \in Entities :
               f # player
                 => Persisted(last_atbats_file', f) = Persisted(last_atbats_file, f) ]_vars

\* the outcomes of a notifier call that failed
NotifierFailed == {"postfail", "summaryfail"}

\* C13: a failing notifier call does not stop polling: the loop task lives
\* on, the pass goes on over the rest of the roster, and when the pass is over
\* the loop task is ready for the next tick.
C13_NotifierFailureNotFatal ==
    /\ [](res \in NotifierFailed => (is_running /\ (pc = "idle" => TickReady)))
    /\ [][ (pc \in {"post", "summary"} /\ Stepped /\ res' \in NotifierFailed)
             => /\ loopTasks' = loopTasks
                /\ IF idx < Len(roster)
                   THEN pc' = "game" /\ idx' = idx + 1 /\ roster' = roster
                   ELSE pc' = "idle" /\ running' = running - 1 ]_vars

\* the posts for both roster entries failed, nothing was ever delivered, the
\* pass is over and the loop task waits for its next tick
C13_Witness ==
    /\ res = "postfail"
    /\ pc = "idle"
    /\ Len(players_file) = 2
    /\ atbat_sent = {}
    /\ TickReady
    /\ \A e \in Entities : Len(player_atbats(e, allPlays)) > 0

\* the outcomes of check_games up to its first await
TickOutcomes == {"noroster", "loopdead", "nochannel", "start"}

\* C14: with an empty or absent roster a tick of the loop is a no-op: it
\* issues no gateway request and no notification, leaves the marker file and
\* the roster file alone, starts no pass and leaves the loop task waiting.
C14_EmptyRosterNoOp ==
    [][ (players_file = <<>> /\ res' # res /\ res' \in TickOutcomes)
          => /\ res' = "noroster"
             /\ pc' = "idle"
             /\ UNCHANGED <<files, sink, locals, loopTasks, running>> ]_vars

\* a tick came with an empty roster while the upstream had a game with plays
C14_Witness ==
    /\ res = "noroster"
    /\ players_file = <<>>
    /\ is_running
    /\ gamePk > 0
    /\ Len(allPlays) > 0
    /\ atbat_sent = {}
    /\ last_atbats_file = save_json(EmptyMarkers)

\* C15: when every awaited call returns or raises, a pass that has started
\* ends, and it ends behind the last roster entry, whatever the outcome for
\* each entry was.
C15_PassTerminates ==
    /\ (pc # "idle") ~> (pc = "idle")
    /\ [][ (pc # "idle" /\ pc' = "idle") => idx = Len(roster) ]_vars

\* a pass over two roster entries is over; the first entry had raised, the
\* second one was posted and saved
C15_Witness ==
    /\ pc = "idle"
    /\ running = 0
    /\ res = "saved"
    /\ Len(players_file) = 2
    /\ atbat_sent = {<<2, 1, 0>>}
    /\ last_atbats_file = save_json([EmptyMarkers EXCEPT ![2] = 0])

\* the players of the answer whose full name contains name, case-insensitively,
\* in upstream order
AllMatches(name, resp) ==
    LET players == IF resp = <<>> THEN <<>> ELSE resp[1].people
        matching == SelectSeq(players,
                              LAMBDA p : contains(lower(name), lower(p.fullName)))
    IN [i \in DOMAIN matching |-> _format_player_info(matching[i])]

\* C17: search_player, also as add_player calls it, returns the list of all
\* upstream players whose full name contains the name case-insensitively, and
\* the empty list, not an error, when nothing matches or the request failed.
C17_SearchReturnsAllMatches ==
    (/\ call.fn \in {"search_player", "add_player"}
     /\ call.done
     /\ (call.fn = "add_player" => call.admin))
       => call.out = Returned(AllMatches(call.name, call.resp))

\* the positions in the feed of the plays of batter e whose result has both
\* an event type and a description
Qualifying(e, plays) ==
    {i \in DOMAIN plays :
       plays[i].batter = e /\ plays[i].event # "" /\ plays[i].description}

Last(S) == CHOOSE i \in S : \A j \in S : j <= i

\* C18: get_latest_atbat returns the last play in feed order among the plays
\* of the batter that have both result fields, skips the plays that miss one,
\* and returns None when there is no such play; the pass acts on that play.
C18_LatestQualifyingPlay ==
    /\ [](\A e \in Entities :
            LET got == get_latest_atbat(e, [game_pk |-> 1], _request(TRUE, feedBody))
                q == Qualifying(e, allPlays)
            IN IF q = {} THEN got = <<>>
               ELSE got = <<_format_atbat(allPlays[Last(q)])>>)
    /\ [][ (pc = "atbat" /\ Stepped /\ res' \in {"noatbat", "new", "same"})
             => LET q == Qualifying(player, allPlays)
                IN /\ (res' = "noatbat") = (q = {})
                   /\ res' = "new" => latest_atbat'[1].id = allPlays[Last(q)].atBatIndex
                   /\ res' = "same" => last_atbats[player] = allPlays[Last(q)].atBatIndex
          ]_vars

\* the feed holds a completed at-bat of the player and behind it a play of
\* the player with an event type but no description yet: the pass took the
\* first one
C18_Witness ==
    /\ pc = "post"
    /\ res = "new"
    /\ Len(allPlays) = 2
    /\ allPlays[1].batter = player /\ Completed(allPlays[1])
    /\ allPlays[2].batter = player /\ allPlays[2].event # "" /\ ~allPlays[2].description
    /\ latest_atbat = <<_format_atbat(allPlays[1])>>

\* the event type with the other hit classification
SwapHit(ev) == IF ev \in hit_events THEN "Strikeout" ELSE "Single"

\* the feed of the second run: the same plays, the latest qualifying at-bat
\* of e with an event type of the other hit classification
Twin(e, plays) ==
    LET q == Qualifying(e, plays)
    IN IF q = {} THEN plays
       ELSE [plays EXCEPT ![Last(q)].event = SwapHit(@)]

\* what a pass with these markers decides for e on this feed: whether it
\* notifies, and the marker of e it goes on with
Decision(e, plays, markers) ==
    LET ab == get_latest_atbat(e, [game_pk |-> 1], _request(TRUE, [allPlays |-> plays]))
    IN IF ab = <<>> THEN [notify |-> FALSE, marker |-> markers[e]]
       ELSE IF IsNew(ab[1], markers, e) THEN [notify |-> TRUE, marker |-> ab[1].id]
       ELSE [notify |-> FALSE, marker |-> markers[e]]

\* C19: the hit classification of the latest qualifying at-bat does not
\* influence the pass: on the feed that differs only in that event type
\* (hit against non-hit) the decision to notify and the marker update are
\* the same, in every reachable state and at every at-bat step.
C19_HitIndependent ==
    /\ [](\A e \in Entities :
            /\ Decision(e, allPlays, last_atbats_file.data)
                 = Decision(e, Twin(e, allPlays), last_atbats_file.data)
            /\ Decision(e, allPlays, last_atbats)
                 = Decision(e, Twin(e, allPlays), last_atbats))
    /\ [][ (pc = "atbat" /\ Stepped /\ res' \in {"new", "same"})
             => LET twin == Decision(player, Twin(player, allPlays), last_atbats)
                IN /\ (res' = "new") = twin.notify
                   /\ res' = "new" => latest_atbat'[1].id = twin.marker ]_vars

\* a hit of player 1 and a strikeout of player 2 were both notified and marked
C19_Witness ==
    /\ Len(allPlays) = 2
    /\ allPlays[1].batter = 1 /\ allPlays[1].event = "Single"
    /\ allPlays[2].batter = 2 /\ allPlays[2].event = "Strikeout"
    /\ atbat_sent = {<<1, 1, 0>>, <<2, 1, 1>>}
    /\ last_atbats_file = save_json([e \in Entities |-> e - 1])

\* a decimal string without its one leading zero
StripOneZero(str) == IF str # <<>> /\ Head(str) = "0" THEN Tail(str) ELSE str

\* ".000"
AllZero == <<".", "0", "0", "0">>

\* the three values the notification is to show for this stats answer
ExpectedSlash(resp) ==
    IF resp = <<>> \/ resp[1].splits = <<>>
    THEN [avg |-> AllZero, obp |-> AllZero, slg |-> AllZero]
    ELSE [avg |-> StripOneZero(resp[1].splits[1].avg),
          obp |-> StripOneZero(resp[1].splits[1].obp),
          slg |-> StripOneZero(resp[1].splits[1].slg)]

\* C20: the slash line of the notification shows each of avg, obp and slg as
\* the upstream decimal string without a single leading zero, and as ".000"
\* when there is no season split.
C20_SlashLineRendering ==
    (call.fn = "slash_line" /\ call.done)
      => LET e == ExpectedSlash(call.resp)
         IN call.out = Returned(e.avg \o Separator \o e.obp \o Separator \o e.slg)

\* C21: in the iteration of a roster entry on a new at-bat the notification
\* is posted first, then the marker is set and saved, and only then, and only
\* when the game snapshot of this pass is complete, the game summary is
\* requested; no summary is posted in an iteration that did not post a new
\* at-bat and save its marker before.
C21_PostThenMarkerThenSummary ==
    /\ [](pc \in {"save", "summary"} => Key \in atbat_sent)
    /\ [](pc = "summary"
            => /\ game_data[1].gameComplete
               /\ last_atbats_file = save_json(last_atbats)
               /\ last_atbats[player] = latest_atbat[1].id)
    /\ [][ /\ (pc' = "post" /\ pc # "post") => (pc = "atbat" /\ res' = "new")
           /\ (pc' = "save" /\ pc # "save")
                => (pc = "post" /\ res' = "posted"
                    /\ atbat_sent' = atbat_sent \cup {Key}
                    /\ UNCHANGED last_atbats_file)
           /\ (pc' = "summary" /\ pc # "summary") => (pc = "save" /\ res' = "saved")
           /\ summary_sent' # summary_sent
                => (pc = "summary"
                    /\ summary_sent' = summary_sent \cup {<<player, game_data[1].game_pk>>})
         ]_vars

\* the summary of a complete game is being requested: the at-bat was
\* delivered and its marker is in the file
C21_Witness ==
    /\ pc = "summary"
    /\ res = "saved"
    /\ detailedState = "Final"
    /\ atbat_sent = {Key}
    /\ summary_sent = {}
    /\ Persisted(last_atbats_file, player) = latest_atbat[1].id

\* C22: a pass posts at most one at-bat notification per roster entry, the
\* one for the latest qualifying at-bat of the entry in the feed it fetched;
\* an at-bat that is not the latest any more when the feed is fetched is not
\* posted then and, a later at-bat of the game being notified, never after.
C22_OnlyLatestOncePerEntry ==
    [][ /\ atbat_sent' # atbat_sent
             => /\ pc = "post" /\ pc' # "post"
                /\ atbat_sent' = atbat_sent \cup {Key}
                /\ \A k \in atbat_sent :
                     (k[1] = Key[1] /\ k[2] = Key[2]) => k[3] <= Key[3]
        /\ (pc' = "post" /\ pc # "post")
             => /\ pc = "atbat" /\ idx' = idx
                /\ LET q == Qualifying(player, allPlays)
                   IN /\ q # {}
                      /\ latest_atbat' = <<_format_atbat(allPlays[Last(q)])>>
        /\ (pc # "idle" /\ pc' # "idle" /\ idx' # idx)
             => (idx' = idx + 1 /\ roster' = roster) ]_vars

\* two at-bats of player 1 were completed before the pass fetched the feed:
\* the second one was notified and marked, the first one never
C22_Witness ==
    /\ pc = "idle"
    /\ res = "saved"
    /\ Len(allPlays) = 2
    /\ \A i \in 1..2 : allPlays[i].batter = 1 /\ Completed(allPlays[i])
    /\ atbat_sent = {<<1, 1, 1>>}
    /\ Persisted(last_atbats_file, 1) = 1

\* the persisted marker of e is the id of its latest qualifying at-bat in
\* the upstream feed (or the feed has no at-bat of e)
UpToDate(e) ==
    LET q == Qualifying(e, allPlays)
    IN q = {} \/ Persisted(last_atbats_file, e) = allPlays[Last(q)].atBatIndex

\* the at-bat was delivered and its marker is in the file
Notified(e, g, i) ==
    /\ <<e, g, i>> \in atbat_sent
    /\ Persisted(last_atbats_file, e) = i

\* a step met a failure of the upstream, of the channel lookup or of the
\* marker file
Excused ==
    res \in {"nochannel", "loopdead", "nogame", "gameraise", "atbatraise",
             "feedfail", "savefail"}

\* C23 as stated: a failed post is retried until the at-bat is notified
\* exactly once, so an at-bat that was delivered is never posted again.
C23_NotifiedExactlyOnce ==
    [][ (pc' = "post" /\ pc # "post")
          => <<player, game_data[1].game_pk, latest_atbat'[1].id>> \notin atbat_sent ]_vars

\* C23: a failed post leaves the marker as it was, so the later passes take
\* the at-bat for new and post it again: with a notifier that does not fail
\* for ever the marker of every roster entry comes to hold the id of its
\* latest at-bat, which only a delivered post and a completed save bring
\* about (a run in which a request, the channel lookup or a save fails later
\* is not held against it); an at-bat that was delivered is posted again only
\* when its marker was not saved.
C23_FailedPostRetried ==
    /\ (res = "postfail")
         ~> ((\A n \in DOMAIN players_file : UpToDate(players_file[n])) \/ Excused)
    /\ [][ last_atbats_file' # last_atbats_file /\ last_atbats_file'.ok
             => /\ Key \in atbat_sent
                /\ last_atbats_file'.data[player] = Key[3] ]_vars
    /\ [][ (pc' = "post" /\ pc # "post"
            /\ <<player, game_data[1].game_pk, latest_atbat'[1].id>> \in atbat_sent)
             => /\ last_atbats[player] # latest_atbat'[1].id
                /\ Persisted(last_atbats_file, player) # latest_atbat'[1].id ]_vars

\* the only at-bat of the feed was delivered and its save failed; a later
\* pass took it for new and posted it again, and this post has just failed:
\* the marker is still absent and the loop task waits for its next tick
C23_Witness ==
    /\ res = "postfail"
    /\ pc = "idle"
    /\ TickReady
    /\ players_file = <<1>>
    /\ Len(allPlays) = 1
    /\ atbat_sent = {<<1, 1, 0>>}
    /\ last_atbats_file = save_json(EmptyMarkers)
    /\ ~UpToDate(1)

\* e is an entry of this roster
OnRoster(e, some_roster) == \E n \in DOMAIN some_roster : some_roster[n] = e

====
